---- MODULE Spec2Model ----
(***************************************************************************)
(* A model of wasr_t/train.py: the LitModel wrapper (argument defaults,    *)
(* training and validation steps, optimizer groups, learning-rate decay    *)
(* and checkpoint export).                                                 *)
(*                                                                         *)
(* Numbers.  A Python float / 0-dim tensor value is a record               *)
(*   [k |-> "fin", v |-> n]  the finite value n/One (fixed point),         *)
(*   [k |-> "inf"], [k |-> "ninf"], [k |-> "nan"]  the IEEE specials,      *)
(*   [k |-> "none"]  Python's None (an argument that was not given).       *)
(* A tensor scalar is [tensor |-> value]; .item() unwraps it.              *)
(***************************************************************************)
EXTENDS Integers, Sequences, FiniteSets, TLC

VARIABLES
    pc,                \* position in the life cycle of the wrapper
    args,              \* the argparse namespace
    args_in,           \* the namespace as parse_args received it
    self,              \* the LitModel's hyper-parameter fields
    metrics,           \* val_accuracy, val_iou_0, val_iou_1, val_iou_2
    logged,            \* self.log: key -> last logged value
    calls,             \* calls to the loss module made by the running step
    ret,               \* what the last step returned
    n_train, n_val,    \* training / validation steps taken so far
    named_parameters,  \* self.model.named_parameters(): sequence of names
    param_groups,      \* the optimizer's parameter groups
    last_epoch,        \* the scheduler's epoch counter
    lr_history,        \* the multipliers lr_fn returned, epoch by epoch
    weights,           \* self.model.state_dict()
    checkpoint,        \* the checkpoint dictionary handed to on_save_checkpoint
    checkpoint_in,     \* the dictionary as on_save_checkpoint received it
    val_labels         \* labels['segmentation'] of the last validation batch

vars == <<pc, args, args_in, self, metrics, logged, calls, ret, n_train, n_val, val_labels,
          named_parameters, param_groups, last_epoch, lr_history, weights,
          checkpoint, checkpoint_in>>

-----------------------------------------------------------------------------
(* Floats *)

\* 1.0 in fixed-point units (hundredths)
One == 100

Fin(n) == [k |-> "fin", v |-> n]
Inf == [k |-> "inf", v |-> 0]
NInf == [k |-> "ninf", v |-> 0]
NaN == [k |-> "nan", v |-> 0]
None == [k |-> "none", v |-> 0]

Sign(x) ==
    CASE x.k = "inf" -> 1
      [] x.k = "ninf" -> -1
      [] OTHER -> IF x.v > 0 THEN 1 ELSE IF x.v < 0 THEN -1 ELSE 0

\* IEEE multiplication: nan is absorbing, inf * 0 is nan
FMul(a, b) ==
    IF a.k = "nan" \/ b.k = "nan" THEN NaN
    ELSE IF a.k = "fin" /\ b.k = "fin" THEN Fin((a.v * b.v) \div One)
    ELSE IF Sign(a) * Sign(b) = 0 THEN NaN
    ELSE IF Sign(a) * Sign(b) > 0 THEN Inf ELSE NInf

\* IEEE addition: nan is absorbing, inf + (-inf) is nan
FAdd(a, b) ==
    IF a.k = "nan" \/ b.k = "nan" THEN NaN
    ELSE IF a.k = "fin" /\ b.k = "fin" THEN Fin(a.v + b.v)
    ELSE IF a.k = "fin" THEN b
    ELSE IF b.k = "fin" THEN a
    ELSE IF a.k = b.k THEN a ELSE NaN

Tensor(x) == [tensor |-> x]
Item(t) == t.tensor

-----------------------------------------------------------------------------
(* Module constants and the argument parser *)

\* learning rates are counted in units of 1e-6
LEARNING_RATE == 1
NUM_EPOCHS == 50
\* momentum 0.9 in hundredths; weight decay in units of 1e-6
MOMENTUM == 90
WEIGHT_DECAY == 1
\* lr_decay_pow is counted in tenths: 0.9
LR_DECAY_POW == 9
PowDen == 10

SL_METHODS == {"wasr", "none"}

SL_LAMBDA_DEFAULTS == [wasr |-> Fin(1), none |-> Fin(One)]

\* what --separation-loss-lambda (type=float, default=None) can leave in args
LambdaArgs == {None, Fin(0), Fin(1), Fin(50), Fin(One), Fin(-One), Inf, NInf, NaN}

\* what --separation-loss-clipping (type=float, default=None) can leave in args
ClippingArgs == {None, Fin(One)}

ArgsOf(lr, ep, pw, sl, lam, clip, sky, scale) ==
    [learning_rate |-> lr, momentum |-> MOMENTUM, epochs |-> ep,
     lr_decay_pow |-> pw, weight_decay |-> WEIGHT_DECAY,
     focal_loss_scale |-> scale, separation_loss |-> sl,
     separation_loss_lambda |-> lam, separation_loss_clipping |-> clip,
     separation_loss_sky |-> sky]

\* the namespaces add_argparse_args' parser can produce (defaults for the
\* optimisation arguments)
ParserArgs ==
    { ArgsOf(LEARNING_RATE, NUM_EPOCHS, LR_DECAY_POW, sl, lam, clip, sky, scale) :
        sl \in SL_METHODS, lam \in LambdaArgs, clip \in ClippingArgs,
        sky \in BOOLEAN, scale \in {"logits", "labels"} }

\* a variant that tests the lambda's truth value instead of "is None"
parse_args_falsy(a) ==
    IF a.separation_loss_lambda = None \/ a.separation_loss_lambda = Fin(0)
    THEN [a EXCEPT !.separation_loss_lambda = SL_LAMBDA_DEFAULTS[a.separation_loss]]
    ELSE a

parse_args(a) ==
    IF a.separation_loss_lambda = None
    THEN [a EXCEPT !.separation_loss_lambda = SL_LAMBDA_DEFAULTS[a.separation_loss]]
    ELSE a

-----------------------------------------------------------------------------
(* LitModel.__init__ *)

MetricNames == {"val_accuracy", "val_iou_0", "val_iou_1", "val_iou_2"}

NoUpdate == [preds |-> <<>>, target |-> <<>>]

\* a metric object: how many updates it received and the last (preds, target)
FreshMetric == [n |-> 0, last |-> NoUpdate]

LitInit(a) ==
    [epochs |-> a.epochs, learning_rate |-> a.learning_rate,
     momentum |-> a.momentum, weight_decay |-> a.weight_decay,
     lr_decay_pow |-> a.lr_decay_pow, focal_loss_scale |-> a.focal_loss_scale,
     separation_loss |-> a.separation_loss,
     separation_loss_clipping |-> a.separation_loss_clipping,
     separation_loss_lambda |-> a.separation_loss_lambda,
     separation_loss_sky |-> a.separation_loss_sky]

FreshMetrics == [m \in MetricNames |-> FreshMetric]

\* the fields before __init__ ran
NoSelf == [epochs |-> 0]

LogKeys == {"train/loss", "train/focal_loss", "train/separation_loss", "val/loss",
            "val/accuracy", "val/iou/obstacle", "val/iou/water", "val/iou/sky"}

NothingLogged == [key \in LogKeys |-> None]

-----------------------------------------------------------------------------
(* Tensors of shape (C, h, w): [h, w, px], px[<<i, j>>] the channel vector  *)
(* of pixel (i, j), indices from 0.  The batch dimension is left out: every *)
(* operation of this file acts on each image of a batch alone.              *)

Grid(h, w, f) == [h |-> h, w |-> w, px |-> f]

Pixels(h, w) == (0..(h - 1)) \X (0..(w - 1))

\* a 1 x 1 image
G11(v) == Grid(1, 1, [p \in Pixels(1, 1) |-> v])
\* a 1 x 2 image
G12(a, b) == Grid(1, 2, [p \in Pixels(1, 2) |-> IF p[2] = 0 THEN a ELSE b])
\* a 2 x 1 image
G21(a, b) == Grid(2, 1, [p \in Pixels(2, 1) |-> IF p[1] = 0 THEN a ELSE b])

NumChannels == 3

Channels == 0..(NumChannels - 1)

\* tensor.argmax over the channel dimension: the first index of a largest value
Argmax(v) ==
    CHOOSE c \in Channels :
        /\ \A d \in Channels : v[d + 1] <= v[c + 1]
        /\ \A d \in Channels : d < c => v[d + 1] < v[c + 1]

\* tensor.sum over the channel dimension
ChannelSum(v) == v[1] + v[2] + v[3]


\* One axis of bilinear interpolation without corner alignment, for output
\* index d of an axis resized from n to m points: the two source indices and
\* their weights in units of 1/(2m).
\*   src = (d + 0.5) * n/m - 0.5, clamped at 0
Axis(d, n, m) ==
    LET s2 == IF (2 * d + 1) * n - m < 0 THEN 0 ELSE (2 * d + 1) * n - m
        i0 == s2 \div (2 * m)
        i1 == IF i0 < n - 1 THEN i0 + 1 ELSE i0
        l1 == s2 - 2 * m * i0
    IN  [i0 |-> i0, i1 |-> i1, l0 |-> 2 * m - l1, l1 |-> l1]

\* TF.resize(t, (H, W), interpolation=BILINEAR); the values are scaled by
\* the common factor 4*H*W, which no argmax sees
Resize(t, H, W) ==
    Grid(H, W,
         [p \in Pixels(H, W) |->
            LET a == Axis(p[1], t.h, H)
                b == Axis(p[2], t.w, W)
            IN  [c \in 1..NumChannels |->
                    a.l0 * b.l0 * t.px[<<a.i0, b.i0>>][c]
                  + a.l0 * b.l1 * t.px[<<a.i0, b.i1>>][c]
                  + a.l1 * b.l0 * t.px[<<a.i1, b.i0>>][c]
                  + a.l1 * b.l1 * t.px[<<a.i1, b.i1>>][c]]])

\* t.argmax(1): a (h, w) map of class indices
ArgmaxMap(t) == Grid(t.h, t.w, [p \in Pixels(t.h, t.w) |-> Argmax(t.px[p])])

\* a bool used in integer arithmetic
BoolInt(b) == IF b THEN 1 ELSE 0

\* the ignore mask of one pixel, with a threshold that lets sum = 0.9 through
\* to the ignored side
IgnoreMaskLeq(v) == ChannelSum(v) <= 90

\* labels.sum(1) < 0.9 for one pixel
IgnoreMask(v) == ChannelSum(v) < 90

\* labels_hard * ~ignore_mask + 4 * ignore_mask for one pixel
HardLabel(v) ==
    Argmax(v) * BoolInt(~IgnoreMask(v)) + 4 * BoolInt(IgnoreMask(v))

HardLabels(seg) == Grid(seg.h, seg.w, [p \in Pixels(seg.h, seg.w) |-> HardLabel(seg.px[p])])

-----------------------------------------------------------------------------
(* Batches, the network and the loss module *)

\* soft labels of one pixel, in hundredths: one-hot, unlabelled, under the
\* ignore threshold, on it, a tie, a mixture
SoftPixels == { <<100, 0, 0>>, <<0, 100, 0>>, <<0, 0, 100>>, <<0, 0, 0>>,
                <<40, 45, 0>>, <<30, 60, 0>>, <<50, 50, 0>>, <<20, 30, 45>>,
                <<0, 89, 0>> }

\* labels['segmentation'] of a batch
SegLabels ==
    { G11(v) : v \in SoftPixels }
    \cup { G12(<<100, 0, 0>>, <<0, 0, 0>>), G12(<<30, 60, 0>>, <<0, 0, 100>>),
           G21(<<0, 100, 0>>, <<40, 45, 0>>) }

\* logits of one head
Logits ==
    { G11(<<0, 0, 0>>), G12(<<9, 0, 0>>, <<0, 3, 0>>),
      Grid(2, 2, [p \in Pixels(2, 2) |->
                    IF p = <<0, 0>> THEN <<8, 0, 0>>
                    ELSE IF p = <<1, 1>> THEN <<0, 0, 8>> ELSE <<0, 2, 0>>]) }

HeadTensor(name, g) == [head |-> name, data |-> g]

\* self.model(features): the two heads, whatever the weights make of the input
ModelOutputs == { [out |-> HeadTensor("out", g), aux |-> HeadTensor("aux", G11(<<0, 0, 0>>))] : g \in Logits }

\* the outputs training steps see: the losses, not the logits, decide a step
TrainOutputs == { o \in ModelOutputs : o.out.data = G11(<<0, 0, 0>>) }

\* values the loss functions can return
LossValues == {Fin(30), Fin(250)}

FocalCall(input, scale) ==
    [fn |-> "focal_loss", input |-> input.head, target |-> "segmentation",
     target_scale |-> scale, clipping |-> None, include_sky |-> FALSE]

SeparationCall(input, clipping, sky) ==
    [fn |-> "water_obstacle_separation_loss", input |-> input.head,
     target |-> "segmentation", target_scale |-> "", clipping |-> clipping,
     include_sky |-> sky]

-----------------------------------------------------------------------------
(* training_step *)

\* a variant that computes the separation loss whatever the method
UsesSeparationAlways(method) == TRUE

\* if self.separation_loss == 'wasr'
UsesSeparation(method) == method = "wasr"

\* a variant that forgets the weight
CompositeLossUnweighted(fl, lambda, separation_loss) ==
    Tensor(FAdd(Item(fl), Item(separation_loss)))

\* loss = fl + self.separation_loss_lambda * separation_loss
CompositeLoss(fl, lambda, separation_loss) ==
    Tensor(FAdd(Item(fl), FMul(lambda, Item(separation_loss))))


argVars == <<args, args_in>>
stepVars == <<metrics, logged, calls, ret, n_train, n_val>>
optVars == <<named_parameters, param_groups, last_epoch, lr_history>>
ckVars == <<weights, checkpoint, checkpoint_in>>

\* steps taken in one run of the model
MaxSteps == 2

NoPreds == Grid(0, 0, <<>>)

NoReturn == [loss |-> Tensor(None), preds |-> NoPreds]

TrainingStep ==
    /\ pc = "ready"
    /\ n_train + n_val < MaxSteps
    /\ \E out \in TrainOutputs, fl_value \in LossValues, sl_value \in LossValues :
        LET fl == Tensor(fl_value)
            wasr == UsesSeparation(self.separation_loss)
            separation_loss == IF wasr THEN Tensor(sl_value) ELSE Tensor(Fin(0))
            loss == CompositeLoss(fl, self.separation_loss_lambda, separation_loss)
        IN  /\ calls' =
                  <<[call |-> FocalCall(out.out, self.focal_loss_scale), result |-> fl]>>
                  \o (IF wasr
                      THEN <<[call |-> SeparationCall(out.aux, self.separation_loss_clipping,
                                                      self.separation_loss_sky),
                              result |-> separation_loss]>>
                      ELSE <<>>)
            /\ logged' = [logged EXCEPT !["train/loss"] = Item(loss),
                                        !["train/focal_loss"] = Item(fl),
                                        !["train/separation_loss"] = Item(separation_loss)]
            /\ ret' = [loss |-> loss, preds |-> NoPreds]
    /\ n_train' = n_train + 1
    /\ UNCHANGED <<pc, self, argVars, metrics, n_val, val_labels, optVars, ckVars>>

-----------------------------------------------------------------------------
(* validation_step *)

\* a metric object called with (preds, target)
MetricForward(m, preds, target) ==
    [n |-> m.n + 1, last |-> [preds |-> preds, target |-> target]]

\* a variant with a copied line: val_iou_1 is called twice, val_iou_2 never
UpdateMetricsCopied(ms, preds, labels_hard) ==
    [val_accuracy |-> MetricForward(ms.val_accuracy, preds, labels_hard),
     val_iou_0 |-> MetricForward(ms.val_iou_0, preds, labels_hard),
     val_iou_1 |-> MetricForward(MetricForward(ms.val_iou_1, preds, labels_hard),
                                 preds, labels_hard),
     val_iou_2 |-> ms.val_iou_2]

\* self.val_accuracy(preds, labels_hard) ... self.val_iou_2(preds, labels_hard)
UpdateMetrics(ms, preds, labels_hard) ==
    [val_accuracy |-> MetricForward(ms.val_accuracy, preds, labels_hard),
     val_iou_0 |-> MetricForward(ms.val_iou_0, preds, labels_hard),
     val_iou_1 |-> MetricForward(ms.val_iou_1, preds, labels_hard),
     val_iou_2 |-> MetricForward(ms.val_iou_2, preds, labels_hard)]

\* a logged metric object
MetricRef(name) == [k |-> name, v |-> 0]

ValidationStep ==
    /\ pc = "ready"
    /\ n_train + n_val < MaxSteps
    /\ \E labels \in SegLabels, out \in ModelOutputs, fl_value \in LossValues :
        LET loss == Tensor(fl_value)
            logits == Resize(out.out.data, labels.h, labels.w)
            preds == ArgmaxMap(logits)
            labels_hard == HardLabels(labels)
        IN  /\ calls' = <<[call |-> FocalCall(out.out, self.focal_loss_scale),
                           result |-> loss]>>
            /\ metrics' = UpdateMetrics(metrics, preds, labels_hard)
            /\ logged' = [logged EXCEPT !["val/loss"] = Item(loss),
                                        !["val/accuracy"] = MetricRef("val_accuracy"),
                                        !["val/iou/obstacle"] = MetricRef("val_iou_0"),
                                        !["val/iou/water"] = MetricRef("val_iou_1"),
                                        !["val/iou/sky"] = MetricRef("val_iou_2")]
            /\ ret' = [loss |-> loss, preds |-> preds]
            /\ val_labels' = labels
    /\ n_val' = n_val + 1
    /\ UNCHANGED <<pc, self, argVars, n_train, optVars, ckVars>>


-----------------------------------------------------------------------------
(* Values of the variables an operation has not touched yet *)

NoGroups == <<>>

NoCheckpoint == [key \in {} |-> 0]

IdleSteps ==
    /\ metrics = FreshMetrics
    /\ logged = NothingLogged
    /\ calls = <<>>
    /\ ret = NoReturn
    /\ n_train = 0
    /\ n_val = 0
    /\ val_labels = NoPreds

IdleOptimizer ==
    /\ named_parameters = <<>>
    /\ param_groups = NoGroups
    /\ last_epoch = 0
    /\ lr_history = <<>>

NoSave == [checkpoint |-> NoCheckpoint, state_dict |-> 0]

IdleCheckpoint ==
    /\ weights = 0
    /\ checkpoint = NoCheckpoint
    /\ checkpoint_in = NoSave

-----------------------------------------------------------------------------
(* From the command line to a constructed LitModel *)

ParseArgs ==
    /\ pc = "cli"
    /\ args_in' = args
    /\ args' = parse_args(args)
    /\ pc' = "parsed"
    /\ UNCHANGED <<self, stepVars, val_labels, optVars, ckVars>>

Construct ==
    /\ pc = "parsed"
    /\ self' = LitInit(args)
    /\ metrics' = FreshMetrics
    /\ pc' = "ready"
    /\ UNCHANGED <<argVars, logged, calls, ret, n_train, n_val, val_labels, optVars, ckVars>>

InitArgs ==
    /\ pc = "cli"
    /\ args \in ParserArgs
    /\ args_in = args
    /\ self = NoSelf
    /\ IdleSteps
    /\ IdleOptimizer
    /\ IdleCheckpoint

NextArgs == ParseArgs \/ Construct

SpecArgs == InitArgs /\ [][NextArgs]_vars

-----------------------------------------------------------------------------
(* Training and validation steps of a constructed LitModel *)

\* the namespaces the step model is constructed from
StepArgs ==
    { a \in ParserArgs : /\ a.separation_loss_lambda \in {None, Fin(0), Fin(50), Inf, NaN}
                         /\ a.separation_loss_clipping = None
                         /\ ~a.separation_loss_sky
                         /\ a.focal_loss_scale = "labels" }

Init ==
    /\ pc = "ready"
    /\ args_in \in StepArgs
    /\ args = parse_args(args_in)
    /\ self = LitInit(args)
    /\ IdleSteps
    /\ IdleOptimizer
    /\ IdleCheckpoint

Next == TrainingStep \/ ValidationStep

Spec == Init /\ [][Next]_vars


-----------------------------------------------------------------------------
(* configure_optimizers *)

\* parameter names are sequences of characters
BACKBONE == <<"b", "a", "c", "k", "b", "o", "n", "e">>
WEIGHT == <<"w", "e", "i", "g", "h", "t">>
BIAS == <<"b", "i", "a", "s">>
DECODER == <<"d", "e", "c", "o", "d", "e", "r">>
DOT == <<".">>

\* names a model can give its parameters
ParameterNames ==
    { BACKBONE \o DOT \o WEIGHT,                 \* backbone.weight
      BACKBONE \o DOT \o BIAS,                   \* backbone.bias
      DECODER \o DOT \o WEIGHT,                  \* decoder.weight
      DECODER \o DOT \o BIAS,                    \* decoder.bias
      DECODER \o DOT \o BACKBONE \o DOT \o WEIGHT, \* decoder.backbone.weight
      DECODER \o DOT \o BACKBONE,                \* decoder.backbone
      WEIGHT \o DOT \o BACKBONE,                 \* weight.backbone
      SubSeq(BACKBONE, 1, 4) \o DOT \o SubSeq(WEIGHT, 1, 5) }  \* back.weigh

\* str.startswith
StartsWith(name, prefix) ==
    /\ Len(prefix) <= Len(name)
    /\ SubSeq(name, 1, Len(prefix)) = prefix

\* sub in name
Contains(name, sub) ==
    \E i \in 1..(Len(name) - Len(sub) + 1) : SubSeq(name, i, i + Len(sub) - 1) = sub

\* a variant that looks for 'weight' before it looks for the backbone
GroupOfWeightFirst(name) ==
    IF Contains(name, WEIGHT) THEN "decoder_w"
    ELSE IF StartsWith(name, BACKBONE) THEN "encoder"
    ELSE "decoder_b"

\* the branch of the loop body a named parameter takes
GroupOf(name) ==
    IF StartsWith(name, BACKBONE) THEN "encoder"
    ELSE IF Contains(name, WEIGHT) THEN "decoder_w"
    ELSE "decoder_b"

\* the list the loop has built for one group after the first k parameters
\* (a parameter is named by its position in named_parameters)
RECURSIVE Collected(_, _, _)
Collected(names, k, group) ==
    IF k = 0 THEN <<>>
    ELSE IF GroupOf(names[k]) = group
         THEN Append(Collected(names, k - 1, group), k)
         ELSE Collected(names, k - 1, group)

\* x ** n for integers, with Python's 0 ** 0 = 1
RECURSIVE IntPow(_, _)
IntPow(x, n) == IF n = 0 THEN 1 ELSE x * IntPow(x, n - 1)

\* A multiplier m >= 0 is kept as the fraction num/den = m ** PowDen, which
\* is exact for the exponent pow/PowDen and orders the multipliers as they
\* are ordered.

\* a variant with floor division in epoch/epochs
lr_fn_floordiv(epoch, epochs, pow) ==
    [num |-> IntPow(epochs - epochs * (epoch \div epochs), pow), den |-> IntPow(epochs, pow)]

\* lr_fn = lambda epoch: (1 - epoch/self.epochs) ** self.lr_decay_pow
lr_fn(epoch, epochs, pow) ==
    [num |-> IntPow(epochs - epoch, pow), den |-> IntPow(epochs, pow)]

\* the real number coef * m for a multiplier m
Times(coef, m) == [coef |-> coef, mul |-> m]

\* the multiplier 1
Unscaled == [num |-> 1, den |-> 1]

\* a variant that applies the multiplier to the first group only
ScheduledFirstOnly(groups, m) ==
    [g \in DOMAIN groups |->
        IF g = 1 THEN [groups[g] EXCEPT !.lr = Times(groups[g].initial_lr, m)]
        ELSE groups[g]]

\* LambdaLR: every group's lr = its initial lr * lr_lambda(last_epoch)
Scheduled(groups, m) ==
    [g \in DOMAIN groups |-> [groups[g] EXCEPT !.lr = Times(groups[g].initial_lr, m)]]

ParamGroup(name, params, lr) ==
    [name |-> name, params |-> params, initial_lr |-> lr, lr |-> Times(lr, Unscaled)]

ConfigureOptimizers ==
    /\ pc = "ready"
    /\ LET n == Len(named_parameters)
           encoder_parameters == Collected(named_parameters, n, "encoder")
           decoder_w_parameters == Collected(named_parameters, n, "decoder_w")
           decoder_b_parameters == Collected(named_parameters, n, "decoder_b")
           optimizer ==
               <<ParamGroup("encoder", encoder_parameters, self.learning_rate),
                 ParamGroup("decoder_w", decoder_w_parameters, self.learning_rate * 10),
                 ParamGroup("decoder_b", decoder_b_parameters, self.learning_rate * 20)>>
           m == lr_fn(0, self.epochs, self.lr_decay_pow)
       IN  /\ param_groups' = Scheduled(optimizer, m)
           /\ lr_history' = <<m>>
    /\ last_epoch' = 0
    /\ pc' = "configured"
    /\ UNCHANGED <<self, argVars, stepVars, val_labels, named_parameters, ckVars>>

\* scheduler.step(), which the training loop calls at the end of each epoch
SchedulerStep ==
    /\ pc = "configured"
    /\ last_epoch < self.epochs
    /\ last_epoch' = last_epoch + 1
    /\ LET m == lr_fn(last_epoch + 1, self.epochs, self.lr_decay_pow)
       IN  /\ param_groups' = Scheduled(param_groups, m)
           /\ lr_history' = Append(lr_history, m)
    /\ UNCHANGED <<pc, self, argVars, stepVars, val_labels, named_parameters, ckVars>>

\* parameters of a model, epochs of a run
MaxParams == 2
MaxEpochs == 3

\* lists of k distinct names
RECURSIVE NameLists(_)
NameLists(k) ==
    IF k = 0 THEN {<<>>}
    ELSE { Append(l, x) : l \in NameLists(k - 1), x \in ParameterNames }

DistinctNameLists ==
    { l \in UNION { NameLists(k) : k \in 0..MaxParams } :
        \A i, j \in 1..Len(l) : i # j => l[i] # l[j] }

\* --lr-decay-pow in tenths, --learning-rate in units of 1e-6
PowArgs == {0, 5, LR_DECAY_POW, 10}
LearningRateArgs == {LEARNING_RATE, 3}

OptimizerArgs ==
    { ArgsOf(lr, ep, pw, "wasr", None, None, FALSE, "labels") :
        lr \in LearningRateArgs, ep \in 1..MaxEpochs, pw \in PowArgs }

InitOpt ==
    /\ pc = "ready"
    /\ args_in \in OptimizerArgs
    /\ args = parse_args(args_in)
    /\ self = LitInit(args)
    /\ named_parameters \in DistinctNameLists
    /\ param_groups = NoGroups
    /\ last_epoch = 0
    /\ lr_history = <<>>
    /\ IdleSteps
    /\ IdleCheckpoint

NextOpt == ConfigureOptimizers \/ SchedulerStep

SpecOpt == InitOpt /\ [][NextOpt]_vars

-----------------------------------------------------------------------------
(* on_save_checkpoint *)

\* a variant that rebinds the dictionary instead of adding to it
on_save_checkpoint_rebind(ck, state_dict) == [key \in {"model"} |-> state_dict]

\* checkpoint['model'] = self.model.state_dict()
on_save_checkpoint(ck, state_dict) ==
    [key \in DOMAIN ck \cup {"model"} |-> IF key = "model" THEN state_dict ELSE ck[key]]

\* versions of the weights (0 at construction)
MaxWeights == 2

CheckpointKeys == {"epoch", "state_dict", "model"}

\* dictionaries the trainer can hand over: any of the keys, any small value
Checkpoints ==
    UNION { [keys -> 0..MaxWeights] : keys \in SUBSET CheckpointKeys }

\* optimizer.step(): the weights change
OptimizerStep ==
    /\ pc = "ready"
    /\ weights < MaxWeights
    /\ weights' = weights + 1
    /\ UNCHANGED <<pc, self, argVars, stepVars, val_labels, optVars, checkpoint, checkpoint_in>>

OnSaveCheckpoint ==
    /\ pc = "ready"
    /\ \E ck \in Checkpoints :
        /\ checkpoint_in' = [checkpoint |-> ck, state_dict |-> weights]
        /\ checkpoint' = on_save_checkpoint(ck, weights)
    /\ UNCHANGED <<pc, self, argVars, stepVars, val_labels, optVars, weights>>

InitCkpt ==
    /\ pc = "ready"
    /\ args_in = ArgsOf(LEARNING_RATE, NUM_EPOCHS, LR_DECAY_POW, "wasr", None, None, FALSE, "labels")
    /\ args = parse_args(args_in)
    /\ self = LitInit(args)
    /\ IdleSteps
    /\ IdleOptimizer
    /\ IdleCheckpoint

NextCkpt == OptimizerStep \/ OnSaveCheckpoint

SpecCkpt == InitCkpt /\ [][NextCkpt]_vars

-----------------------------------------------------------------------------
(* Properties *)

\* C1: parse_args fills in the separation-loss lambda only when it is None:
\* 0.01 for 'wasr', 1.0 for 'none'; a lambda that was given (0 included) is
\* returned as it was, and no other field of args changes.
C1_ParseArgsDefaultsOnlyWhenMissing ==
    pc # "cli" =>
        /\ args_in.separation_loss_lambda = None =>
              /\ args.separation_loss = "wasr" => args.separation_loss_lambda = Fin(1)
              /\ args.separation_loss = "none" => args.separation_loss_lambda = Fin(100)
        /\ args_in.separation_loss_lambda # None =>
              args.separation_loss_lambda = args_in.separation_loss_lambda
        /\ DOMAIN args = DOMAIN args_in
        /\ \A f \in DOMAIN args \ {"separation_loss_lambda"} : args[f] = args_in[f]

C1_Witness ==
    /\ pc = "parsed"
    /\ args_in.separation_loss_lambda = None
    /\ args_in.separation_loss = "none"
    /\ args.separation_loss_lambda = Fin(100)

\* the step that has just run
TrainingStepRan == n_train' = n_train + 1
ValidationStepRan == n_val' = n_val + 1

\* C2: a training step returns focal_loss + lambda * separation_loss, the
\* focal loss taken on the 'out' head and the separation loss on the 'aux'
\* head, and the three logged training values obey the same equation.
C2_TrainingLossIsComposite ==
    [][TrainingStepRan =>
        LET fl == calls'[1].result
            sl == IF Len(calls') > 1 THEN calls'[2].result ELSE Tensor(Fin(0))
        IN  /\ calls'[1].call.fn = "focal_loss"
            /\ calls'[1].call.input = "out"
            /\ Len(calls') > 1 =>
                  /\ calls'[2].call.fn = "water_obstacle_separation_loss"
                  /\ calls'[2].call.input = "aux"
            /\ ret'.loss = Tensor(FAdd(Item(fl), FMul(self.separation_loss_lambda, Item(sl))))
            /\ logged'["train/focal_loss"] = Item(fl)
            /\ logged'["train/separation_loss"] = Item(sl)
            /\ logged'["train/loss"] =
                  FAdd(logged'["train/focal_loss"],
                       FMul(self.separation_loss_lambda, logged'["train/separation_loss"]))
    ]_vars

C2_Witness ==
    /\ n_train > 0
    /\ self.separation_loss = "wasr"
    /\ self.separation_loss_lambda = Fin(50)
    /\ logged["train/focal_loss"] = Fin(30)
    /\ logged["train/separation_loss"] = Fin(250)
    /\ logged["train/loss"] = Fin(155)

\* the label rule of C6 for one pixel, stated on its own
IsHardLabelOf(hard, v) ==
    IF v[1] + v[2] + v[3] < 90
    THEN hard = 4
    ELSE /\ hard \in 0..2
         /\ \A d \in 1..3 : v[d] <= v[hard + 1]

\* C6: after a validation step the hard label of every pixel is 4 when its
\* soft labels sum to less than 0.9 and the index of a largest channel
\* otherwise, and the predictions have the labels' height and width.
C6_HardLabelsAndPredsShape ==
    n_val > 0 =>
        LET last == metrics.val_accuracy.last
        IN  /\ last.target.h = val_labels.h
            /\ last.target.w = val_labels.w
            /\ DOMAIN last.target.px = Pixels(val_labels.h, val_labels.w)
            /\ \A p \in Pixels(val_labels.h, val_labels.w) :
                  IsHardLabelOf(last.target.px[p], val_labels.px[p])
            /\ last.preds.h = val_labels.h
            /\ last.preds.w = val_labels.w
            /\ DOMAIN last.preds.px = Pixels(val_labels.h, val_labels.w)
            /\ \A p \in Pixels(val_labels.h, val_labels.w) : last.preds.px[p] \in 0..2

\* labels of 2 x 1 pixels (no logits of the model have that shape), one of
\* them ignored
C6_Witness ==
    /\ n_val > 0
    /\ val_labels = G21(<<0, 100, 0>>, <<40, 45, 0>>)
    /\ metrics.val_accuracy.last.target.px[<<0, 0>>] = 1
    /\ metrics.val_accuracy.last.target.px[<<1, 0>>] = 4
    /\ metrics.val_accuracy.last.preds.h = 2

\* what a training step with method 'none' does, for the lambdas in L
NoneSkipsSeparation(L) ==
    (TrainingStepRan /\ self.separation_loss = "none") =>
        /\ Len(calls') = 1
        /\ calls'[1].call.fn = "focal_loss"
        /\ logged'["train/separation_loss"] = Fin(0)
        /\ self.separation_loss_lambda \in L => ret'.loss = calls'[1].result

WasrComputesSeparation ==
    (TrainingStepRan /\ self.separation_loss = "wasr") =>
        /\ Len(calls') = 2
        /\ calls'[2].call.fn = "water_obstacle_separation_loss"
        /\ logged'["train/separation_loss"] = Item(calls'[2].result)

FiniteLambdas == { x \in LambdaArgs \cup {SL_LAMBDA_DEFAULTS[m] : m \in SL_METHODS} : x.k = "fin" }

AllLambdas == LambdaArgs \cup {SL_LAMBDA_DEFAULTS[m] : m \in SL_METHODS}

\* C8 as stated: with method 'none' no separation loss is computed, 0 is
\* logged for it and the loss returned is the focal loss for every lambda;
\* with 'wasr' the separation loss is computed on every training step.
C8_AsStated == [][NoneSkipsSeparation(AllLambdas) /\ WasrComputesSeparation]_vars

\* C8 amended: the same, the returned loss being the focal loss for every
\* finite lambda; an infinite or NaN lambda makes the loss NaN.
C8_NoneSkipsSeparationFiniteLambda ==
    [][/\ NoneSkipsSeparation(FiniteLambdas)
       /\ WasrComputesSeparation
       /\ (TrainingStepRan /\ self.separation_loss = "none"
              /\ self.separation_loss_lambda \notin FiniteLambdas) => ret'.loss = Tensor(NaN)
    ]_vars

\* method 'none' with the default lambda 1.0 that parse_args assigned
C8_Witness ==
    /\ n_train > 0
    /\ self.separation_loss = "none"
    /\ args_in.separation_loss_lambda = None
    /\ self.separation_loss_lambda = Fin(100)
    /\ logged["train/separation_loss"] = Fin(0)
    /\ logged["train/loss"] = logged["train/focal_loss"]
    /\ logged["train/loss"] = Fin(250)

\* C9: a validation step updates each of the four metrics once, all with the
\* same (preds, hard labels) pair, and its loss is the focal loss alone; a
\* training step leaves the metrics as they are; so every metric has had as
\* many updates as there were validation steps.
C9_MetricsUpdatedOncePerValidationStep ==
    [][/\ ValidationStepRan =>
            /\ \A m \in MetricNames :
                  /\ metrics'[m].n = metrics[m].n + 1
                  /\ metrics'[m].last = metrics'.val_accuracy.last
                  /\ metrics'[m].last.preds = ret'.preds
                  /\ metrics'[m].last.target.h = val_labels'.h
            /\ Len(calls') = 1
            /\ calls'[1].call.fn = "focal_loss"
            /\ ret'.loss = calls'[1].result
            /\ logged'["val/loss"] = Item(calls'[1].result)
       /\ TrainingStepRan => metrics' = metrics
       /\ \A m \in MetricNames : metrics'[m].n = n_val'
    ]_vars

C9_Witness ==
    /\ n_val = 1
    /\ n_train = 1
    /\ self.separation_loss = "wasr"
    /\ \A m \in MetricNames : metrics[m].n = 1 /\ metrics[m].last # NoUpdate


\* the grouping rule of C3, stated character by character
NameStartsWithBackbone(name) ==
    /\ Len(name) >= 8
    /\ \A k \in 1..8 : name[k] = BACKBONE[k]

NameHasWeight(name) ==
    \E off \in 0..(Len(name) - 6) : \A k \in 1..6 : name[off + k] = WEIGHT[k]

RuleGroup(name) ==
    CASE NameStartsWithBackbone(name) -> 1
      [] ~NameStartsWithBackbone(name) /\ NameHasWeight(name) -> 2
      [] OTHER -> 3

\* the places (group, position) where parameter i stands in the groups
PlacesOf(i) ==
    { gk \in (1..Len(param_groups)) \X (1..Len(named_parameters)) :
        /\ gk[2] <= Len(param_groups[gk[1]].params)
        /\ param_groups[gk[1]].params[gk[2]] = i }

\* C3: configure_optimizers puts every named parameter in exactly one of the
\* three groups, once: the encoder group when its name starts with
\* 'backbone' (also when it contains 'weight'), else the decoder-weight group
\* when its name contains 'weight', else the decoder-bias group.
C3_ParametersPartitioned ==
    pc = "configured" =>
        /\ Len(param_groups) = 3
        /\ <<param_groups[1].name, param_groups[2].name, param_groups[3].name>>
              = <<"encoder", "decoder_w", "decoder_b">>
        /\ \A g \in 1..3 :
              /\ Len(param_groups[g].params) <= Len(named_parameters)
              /\ \A k \in 1..Len(param_groups[g].params) :
                    param_groups[g].params[k] \in 1..Len(named_parameters)
        /\ \A i \in 1..Len(named_parameters) :
              /\ Cardinality(PlacesOf(i)) = 1
              /\ \A gk \in PlacesOf(i) : gk[1] = RuleGroup(named_parameters[i])

C3_Witness ==
    /\ pc = "configured"
    /\ named_parameters = <<BACKBONE \o DOT \o WEIGHT, DECODER \o DOT \o BACKBONE \o DOT \o WEIGHT>>
    /\ param_groups[1].params = <<1>>
    /\ param_groups[2].params = <<2>>
    /\ param_groups[3].params = <<>>

\* C4: the groups start at 1, 10 and 20 times the base learning rate, the
\* encoder at the base rate itself, and after every scheduler step within
\* epochs 0..epochs their rates are one shared multiplier times those, so
\* they stay in the ratio 1 : 10 : 20.
C4_GroupRatesInRatio ==
    pc = "configured" =>
        /\ last_epoch \in 0..self.epochs
        /\ param_groups[1].initial_lr = self.learning_rate
        /\ param_groups[2].initial_lr = 10 * self.learning_rate
        /\ param_groups[3].initial_lr = 20 * self.learning_rate
        /\ param_groups[1].lr.coef = self.learning_rate
        /\ param_groups[1].lr.mul = lr_history[last_epoch + 1]
        /\ param_groups[2].lr = Times(10 * param_groups[1].lr.coef, param_groups[1].lr.mul)
        /\ param_groups[3].lr = Times(20 * param_groups[1].lr.coef, param_groups[1].lr.mul)
        /\ last_epoch = 0 => param_groups[1].lr.mul.num = param_groups[1].lr.mul.den

C4_Witness ==
    /\ pc = "configured"
    /\ self.epochs = 3
    /\ self.lr_decay_pow = 9
    /\ self.learning_rate = 3
    /\ last_epoch = 2
    /\ param_groups[3].lr = [coef |-> 60, mul |-> [num |-> 1, den |-> 19683]]

\* the multipliers of C5, m ** PowDen being num/den
MultiplierIsOne(m) == m.num = m.den /\ m.den > 0
MultiplierIsZero(m) == m.num = 0 /\ m.den > 0
MultiplierPositive(m) == m.num > 0 /\ m.den > 0
MultiplierLess(a, b) == a.den = b.den /\ a.den > 0 /\ a.num < b.num

\* what C5 says of the epochs other than the last
DecayUpToLastEpoch ==
    /\ Len(lr_history) = last_epoch + 1
    /\ last_epoch <= self.epochs
    /\ \A e \in 0..last_epoch :
          /\ lr_history[e + 1].num = IntPow(self.epochs - e, self.lr_decay_pow)
          /\ lr_history[e + 1].den = IntPow(self.epochs, self.lr_decay_pow)
    /\ MultiplierIsOne(lr_history[1])
    /\ self.lr_decay_pow > 0 =>
          \A e \in 1..last_epoch : MultiplierLess(lr_history[e + 1], lr_history[e])
    /\ \A e \in 0..last_epoch : e < self.epochs => MultiplierPositive(lr_history[e + 1])

SaveRan == checkpoint_in' # checkpoint_in \/ checkpoint' # checkpoint

\* C7: after on_save_checkpoint the checkpoint maps 'model' to the model's
\* state dict (whatever 'model' held before) and every other key to the
\* value it had.
C7_CheckpointGetsModel ==
    [][SaveRan =>
        /\ DOMAIN checkpoint' = DOMAIN checkpoint_in'.checkpoint \cup {"model"}
        /\ checkpoint'["model"] = weights
        /\ \A key \in DOMAIN checkpoint_in'.checkpoint \ {"model"} :
              checkpoint'[key] = checkpoint_in'.checkpoint[key]
    ]_vars

C7_Witness ==
    /\ weights = 2
    /\ DOMAIN checkpoint_in.checkpoint = {"epoch", "state_dict", "model"}
    /\ checkpoint_in.checkpoint["model"] = 0
    /\ checkpoint_in.state_dict = 2
    /\ checkpoint = [epoch |-> 1, state_dict |-> 1, model |-> 2]

====
